---- MODULE Spec2Model ----
(***************************************************************************)
(* jquery.shapeshift: the masonry layout engine of                         *)
(* src/core/jquery.shapeshift.js as a state machine.                       *)
(*                                                                         *)
(* The plugin instance (`this`) is the record This; every method of        *)
(* Plugin.prototype is an operator from the instance before the call to    *)
(* the instance after it.  The actions are the entry points the host page  *)
(* has: constructing the plugin, the window's resize event, and the public *)
(* calls update and destroy made through $.fn.shapeshift.                  *)
(***************************************************************************)
EXTENDS Integers, Sequences, FiniteSets

(***************************************************************************)
(* Bounds of the model.                                                    *)
(***************************************************************************)
MaxItems == 3
MaxWidth == 4
MaxUpdates == 1

\* What the page's items measure and the gutters the options give.
ItemHeights == {1, 2}
ItemWidths == {1, 2}
Gutters == {0, 1}

(***************************************************************************)
(* JavaScript number values.  The instance's numeric fields can hold       *)
(* undefined (before they are assigned, or read from a missing array       *)
(* slot), NaN and the infinities, so a value is a tagged record.           *)
(***************************************************************************)
Num(n) == [t |-> "number", v |-> n]
NaN == [t |-> "NaN", v |-> 0]
Undefined == [t |-> "undefined", v |-> 0]
Infinity == [t |-> "Infinity", v |-> 0]
NegInfinity == [t |-> "-Infinity", v |-> 0]

IsNum(a) == a.t = "number"

\* ToNumber: undefined converts to NaN.
ToNumber(a) == IF a.t = "undefined" THEN NaN ELSE a

\* a + b on numbers.
Add(a, b) ==
  LET x == ToNumber(a)
      y == ToNumber(b)
  IN  IF x.t = "NaN" \/ y.t = "NaN" THEN NaN
      ELSE IF IsNum(x) /\ IsNum(y) THEN Num(x.v + y.v)
      ELSE IF IsNum(x) THEN y
      ELSE IF IsNum(y) THEN x
      ELSE IF x.t = y.t THEN x
      ELSE NaN

\* The sign of a non-NaN number: -1, 0 or 1.
Sign(a) ==
  IF a.t = "Infinity" THEN 1
  ELSE IF a.t = "-Infinity" THEN -1
  ELSE IF a.v > 0 THEN 1
  ELSE IF a.v < 0 THEN -1
  ELSE 0

\* a * b on numbers.
Mul(a, b) ==
  LET x == ToNumber(a)
      y == ToNumber(b)
  IN  IF x.t = "NaN" \/ y.t = "NaN" THEN NaN
      ELSE IF IsNum(x) /\ IsNum(y) THEN Num(x.v * y.v)
      ELSE IF Sign(x) * Sign(y) = 0 THEN NaN
      ELSE IF Sign(x) * Sign(y) > 0 THEN Infinity
      ELSE NegInfinity

\* floor of the quotient of two integers, the divisor not zero.
FloorQuot(n, d) == IF d > 0 THEN n \div d ELSE (0 - n) \div (0 - d)

\* Math.floor(a / b).
FloorDiv(a, b) ==
  LET x == ToNumber(a)
      y == ToNumber(b)
  IN  IF x.t = "NaN" \/ y.t = "NaN" THEN NaN
      ELSE IF IsNum(x) /\ IsNum(y)
        THEN IF y.v # 0 THEN Num(FloorQuot(x.v, y.v))
             ELSE IF x.v > 0 THEN Infinity
             ELSE IF x.v < 0 THEN NegInfinity
             ELSE NaN
      ELSE IF IsNum(x) THEN Num(0)
      ELSE IF ~IsNum(y) THEN NaN
      ELSE IF Sign(x) * (IF y.v < 0 THEN -1 ELSE 1) > 0 THEN Infinity
      ELSE NegInfinity

\* a === b and a !== b: NaN is not equal to anything, itself included.
StrictEq(a, b) == a.t # "NaN" /\ b.t # "NaN" /\ a = b
StrictNe(a, b) == ~StrictEq(a, b)

\* a <= b on non-NaN numbers.
Leq(a, b) ==
  \/ a.t = "-Infinity"
  \/ b.t = "Infinity"
  \/ IsNum(a) /\ IsNum(b) /\ a.v <= b.v

\* Math.min.apply(null, array): Infinity for no argument, NaN when an
\* argument is NaN, otherwise the least argument.
MathMin(array) ==
  IF Len(array) = 0 THEN Infinity
  ELSE IF \E i \in 1..Len(array) : ToNumber(array[i]).t = "NaN" THEN NaN
  ELSE array[CHOOSE i \in 1..Len(array) :
               \A j \in 1..Len(array) : Leq(array[i], array[j])]

\* array.indexOf(value): the first 0-based position holding value, or -1.
IndexOf(array, value) ==
  LET hits == {i \in 1..Len(array) : StrictEq(array[i], value)}
  IN  IF hits = {} THEN -1
      ELSE (CHOOSE i \in hits : \A j \in hits : i <= j) - 1

(***************************************************************************)
(* State.                                                                  *)
(*                                                                         *)
(* The page: elWidth and elHeight are what the children of the container   *)
(* element measure (child n of the DOM is position n + 1), gutter is the   *)
(* option object's gutter pair.  The instance: the fields of `this`.       *)
(* phase is the reactor's state: "Uninitialized" before the constructor    *)
(* ran, "Stable" between handlers, "Hung" when a handler never returns.    *)
(* data is what $.data holds for the element: TRUE for the instance,       *)
(* FALSE for nothing or null.  listening: the window's resize event has    *)
(* the instance's handler attached.                                        *)
(*                                                                         *)
(* History variables: log is the sequence of calls the last handler made   *)
(* (measurements, resets of the height array, pack steps, placements);     *)
(* lastCall is the last entry point taken, the container width it          *)
(* measured (-1: none), whether that was the width stored before the call, *)
(* and whether a public call found an instance to run on; updates counts   *)
(* the public update() calls that ran.                                     *)
(***************************************************************************)
VARIABLES elWidth, elHeight, gutter,
          children, colHeights, colHeightsNeg, gutterX, gutterY, colWidth,
          containerWidth, colCount,
          phase, listening, data,
          log, lastCall, updates

vars == <<elWidth, elHeight, gutter,
          children, colHeights, colHeightsNeg, gutterX, gutterY, colWidth,
          containerWidth, colCount,
          phase, listening, data,
          log, lastCall, updates>>

\* The instance and the page it reads, as one value the methods work on.
\* colHeightsNeg is the array's property "-1" (undefined when it has none).
This ==
  [elWidth |-> elWidth, elHeight |-> elHeight, gutter |-> gutter,
   children |-> children, colHeights |-> colHeights,
   colHeightsNeg |-> colHeightsNeg,
   gutterX |-> gutterX, gutterY |-> gutterY, colWidth |-> colWidth,
   containerWidth |-> containerWidth, colCount |-> colCount,
   listening |-> listening, hung |-> FALSE, log |-> <<>>]

\* One entry of the log: the call, the item's index (-1 when the call is
\* about no item), the column a pack step chose, and the height array the
\* call saw (a reset: the array it built; a pack step: the array before it).
Call(op, i, col, heights) ==
  [op |-> op, i |-> i, col |-> col, heights |-> heights]

Logged(s, entry) == [s EXCEPT !.log = Append(@, entry)]

Zeros(n) == [i \in 1..n |-> Num(0)]

(***************************************************************************)
(* Plugin.prototype, leaf first.                                           *)
(***************************************************************************)

\* _getColumnCount without the gutter of slack added to the width.
GetColumnCountNoSlack(s) ==
  FloorDiv(s.containerWidth, Add(s.colWidth, s.gutterX))

\* _getColumnCount
GetColumnCount(s) ==
  LET available_width == Add(s.containerWidth, s.gutterX)
      adjusted_col_width == Add(s.colWidth, s.gutterX)
  IN  FloorDiv(available_width, adjusted_col_width)

\* _resetColHeights.  The loop runs while i < columns: not at all for NaN,
\* -Infinity or a count <= 0, and without end for Infinity, in which case
\* the assignments after the loop are never reached.
ResetColHeights(s) ==
  LET columns == GetColumnCount(s)
      n == IF IsNum(columns) /\ columns.v > 0 THEN columns.v ELSE 0
  IN  IF columns.t = "Infinity"
        THEN [s EXCEPT !.hung = TRUE]
        ELSE Logged([s EXCEPT !.colHeights = Zeros(n),
                              !.colHeightsNeg = Undefined,
                              !.colCount = Num(n)],
                    Call("reset", -1, -1, Zeros(n)))

\* _fitMinIndex always answering the first position.
FitFirstIndex(array) == IF Len(array) = 0 THEN -1 ELSE 0

\* _fitMinIndex
FitMinIndex(array) == IndexOf(array, MathMin(array))

\* array[column] for the height array: a slot, the property "-1", or
\* undefined.
HeightAt(s, column) ==
  IF column >= 0 /\ column < Len(s.colHeights) THEN s.colHeights[column + 1]
  ELSE IF column = -1 THEN s.colHeightsNeg
  ELSE Undefined

\* _packChild growing the column by the item's height without the gutter.
PackChildNoGutter(s, k) ==
  LET child == s.children[k]
      column == FitMinIndex(s.colHeights)
      padding_offset == Mul(Num(column), s.gutterX)
      y == HeightAt(s, column)
      x == Add(Mul(Num(column), s.elWidth[child.index + 1]), padding_offset)
      grown == Add(HeightAt(s, column), child.height)
      packed == [s EXCEPT !.children[k].y = y, !.children[k].x = x]
  IN  Logged(IF column >= 0
               THEN [packed EXCEPT !.colHeights[column + 1] = grown]
               ELSE [packed EXCEPT !.colHeightsNeg = grown],
             Call("pack", child.index, column, s.colHeights))

\* _packChild, for the child at position k of this.children.
PackChild(s, k) ==
  LET child == s.children[k]
      column == FitMinIndex(s.colHeights)
      padding_offset == Mul(Num(column), s.gutterX)
      y == HeightAt(s, column)
      x == Add(Mul(Num(column), s.elWidth[child.index + 1]), padding_offset)
      grown == Add(HeightAt(s, column), Add(child.height, s.gutterY))
      packed == [s EXCEPT !.children[k].y = y, !.children[k].x = x]
  IN  Logged(IF column >= 0
               THEN [packed EXCEPT !.colHeights[column + 1] = grown]
               ELSE [packed EXCEPT !.colHeightsNeg = grown],
             Call("pack", child.index, column, s.colHeights))

\* this.children.forEach(f), from position k on.
RECURSIVE ForEachChild(_, _, _)
ForEachChild(s, k, op) ==
  IF k > Len(s.children) THEN s
  ELSE ForEachChild(IF op = "pack" THEN PackChild(s, k)
                    ELSE Logged(s, Call("place", s.children[k].index, -1, <<>>)),
                    k + 1, op)

\* _pack
Pack(s) == ForEachChild(s, 1, "pack")

\* render: _positionChild hands each child's (x, y) to the page.
Render(s) == ForEachChild(s, 1, "place")

\* update
Update(s) == Render(Pack(s))

\* _columnCountChanged with the two calls in the other order.
ColumnCountChangedPackFirst(s) == ResetColHeights(Update(s))

\* _columnCountChanged without the reset.
ColumnCountChangedNoReset(s) == Update(s)

\* _columnCountChanged
ColumnCountChanged(s) ==
  LET r == ResetColHeights(s)
  IN  IF r.hung THEN r ELSE Update(r)

\* _containerWidthChanged without the comparison of the counts.
ContainerWidthChangedAlways(s) ==
  ColumnCountChanged([s EXCEPT !.colCount = GetColumnCount(s)])

\* _containerWidthChanged
ContainerWidthChanged(s) ==
  LET column_count == GetColumnCount(s)
  IN  IF StrictNe(column_count, s.colCount)
        THEN ColumnCountChanged([s EXCEPT !.colCount = column_count])
        ELSE s

\* _updateContainerWidth with neither comparison: a layout pass on every
\* notification.
UpdateContainerWidthAlways(s, container_width) ==
  LET m == [Logged(s, Call("measureContainer", -1, -1, <<>>))
              EXCEPT !.containerWidth = Num(container_width)]
  IN  ColumnCountChanged([m EXCEPT !.colCount = GetColumnCount(m)])

\* _updateContainerWidth; container_width is what this.$element.width()
\* returns.
UpdateContainerWidth(s, container_width) ==
  LET m == Logged(s, Call("measureContainer", -1, -1, <<>>))
  IN  IF StrictNe(Num(container_width), m.containerWidth)
        THEN ContainerWidthChanged(
               [m EXCEPT !.containerWidth = Num(container_width)])
        ELSE m

\* _setColumnWidth falling back to a width of 0 when there is no child.
SetColumnWidthOrZero(s) ==
  Logged([s EXCEPT !.colWidth =
            IF Len(s.elWidth) = 0 THEN Num(0) ELSE s.elWidth[1]],
         Call("measureColumnWidth", -1, -1, <<>>))

\* _setColumnWidth: the width of the container's first child (undefined
\* when the container has none).
SetColumnWidth(s) ==
  Logged([s EXCEPT !.colWidth =
            IF Len(s.elWidth) = 0 THEN Undefined ELSE s.elWidth[1]],
         Call("measureColumnWidth", -1, -1, <<>>))

\* _addNewChild
AddNewChild(s, n) ==
  [s EXCEPT !.children =
     Append(@, [index |-> n, height |-> s.elHeight[n + 1],
                x |-> Num(0), y |-> Num(0)])]

\* _parseChildren: $children.each over the container's children.
RECURSIVE EachElement(_, _)
EachElement(s, n) ==
  IF n >= Len(s.elHeight) THEN s ELSE EachElement(AddNewChild(s, n), n + 1)

ParseChildren(s) == EachElement([s EXCEPT !.children = <<>>], 0)

\* _setupGlobals
SetupGlobals(s) ==
  SetColumnWidth([s EXCEPT !.children = <<>>,
                           !.colHeights = <<>>,
                           !.colHeightsNeg = Undefined,
                           !.gutterX = s.gutter[1],
                           !.gutterY = s.gutter[2]])

\* _setupResizeListener
SetupResizeListener(s) == [s EXCEPT !.listening = TRUE]

\* init with a second layout pass after the first.
initTwice(s, container_width) ==
  Update(UpdateContainerWidth(
           SetupResizeListener(ParseChildren(SetupGlobals(s))),
           container_width))

\* init (called by the constructor)
init(s, container_width) ==
  UpdateContainerWidth(
    SetupResizeListener(ParseChildren(SetupGlobals(s))),
    container_width)

\* destroy: logs a line, nothing else.
destroy(s) == s

(***************************************************************************)
(* The state machine.                                                      *)
(***************************************************************************)

\* The sequences of length 1..MaxItems over a set.
SeqsOver(S) == UNION {[1..n -> S] : n \in 1..MaxItems}

\* The page before the plugin is constructed on it: every child has the
\* same width (the layout's design constraint) and a height of its own.
PageOf(widths, gutters, heights) ==
  /\ elHeight \in SeqsOver({Num(h) : h \in heights})
  /\ \E w \in widths : elWidth = [i \in 1..Len(elHeight) |-> Num(w)]
  /\ \E gx \in gutters, gy \in Gutters : gutter = <<Num(gx), Num(gy)>>

NoInstance ==
  /\ children = <<>>
  /\ colHeights = <<>>
  /\ colHeightsNeg = Undefined
  /\ gutterX = Undefined
  /\ gutterY = Undefined
  /\ colWidth = Undefined
  /\ containerWidth = Undefined
  /\ colCount = Undefined
  /\ phase = "Uninitialized"
  /\ listening = FALSE
  /\ data = FALSE
  /\ log = <<>>
  /\ lastCall = [op |-> "none", w |-> -1, same |-> FALSE,
                 dispatched |-> FALSE]
  /\ updates = 0

\* Items of positive width, gutters >= 0.
Init ==
  /\ PageOf(ItemWidths, Gutters, ItemHeights)
  /\ NoInstance

\* The fields of `this` after a method returned instance t.
Commit(t) ==
  /\ children' = t.children
  /\ colHeights' = t.colHeights
  /\ colHeightsNeg' = t.colHeightsNeg
  /\ gutterX' = t.gutterX
  /\ gutterY' = t.gutterY
  /\ colWidth' = t.colWidth
  /\ containerWidth' = t.containerWidth
  /\ colCount' = t.colCount
  /\ listening' = t.listening
  /\ log' = t.log
  /\ UNCHANGED <<elWidth, elHeight, gutter>>

Entered(op, w, dispatched) ==
  lastCall' = [op |-> op, w |-> w, same |-> (Num(w) = containerWidth),
               dispatched |-> dispatched]

\* $(el).shapeshift(options): new Plugin(el, options), whose constructor
\* runs init; $.data keeps the instance once the constructor returned.
Construct ==
  /\ phase = "Uninitialized"
  /\ ~data
  /\ \E w \in 0..MaxWidth :
       LET t == init(This, w)
       IN  /\ Commit(t)
           /\ phase' = IF t.hung THEN "Hung" ELSE "Stable"
           /\ data' = ~t.hung
           /\ Entered("init", w, TRUE)
  /\ UNCHANGED updates

\* The window's resize event, delivered to the bound _updateContainerWidth.
Resize ==
  /\ phase = "Stable"
  /\ listening
  /\ \E w \in 0..MaxWidth :
       LET t == UpdateContainerWidth(This, w)
       IN  /\ Commit(t)
           /\ phase' = IF t.hung THEN "Hung" ELSE "Stable"
           /\ Entered("resize", w, TRUE)
  /\ UNCHANGED <<data, updates>>

\* $(el).shapeshift('update'): runs update on the instance $.data holds,
\* and nothing when it holds none.
CallUpdate ==
  /\ phase = "Stable"
  /\ updates < MaxUpdates
  /\ Commit(IF data THEN Update(This) ELSE This)
  /\ Entered("update", -1, data)
  /\ updates' = IF data THEN updates + 1 ELSE updates
  /\ UNCHANGED <<phase, data>>

\* $(el).shapeshift('destroy'): runs destroy on the instance $.data holds,
\* then sets the element's data to null.
CallDestroy ==
  /\ phase = "Stable"
  /\ Commit(IF data THEN destroy(This) ELSE This)
  /\ Entered("destroy", -1, data)
  /\ data' = FALSE
  /\ UNCHANGED <<phase, updates>>

Next == Construct \/ Resize \/ CallUpdate \/ CallDestroy

Spec == Init /\ [][Next]_vars

\* The page as the instance registered it.
PageAsRegistered ==
  /\ \A i \in 1..Len(elWidth) : elWidth[i] = colWidth
  /\ \A i \in 1..Len(elHeight) : elHeight[i] = children[i].height

\* The page reflows after registration (once): the items take another
\* shared width, or one item another height.  The instance is not told.
Reflow ==
  /\ phase = "Stable"
  /\ PageAsRegistered
  /\ \/ \E w \in ItemWidths :
          /\ elWidth' = [i \in 1..Len(elWidth) |-> Num(w)]
          /\ elHeight' = elHeight
     \/ \E i \in 1..Len(elHeight), h \in ItemHeights :
          /\ elHeight' = [elHeight EXCEPT ![i] = Num(h)]
          /\ elWidth' = elWidth
  /\ UNCHANGED <<gutter, children, colHeights, colHeightsNeg, gutterX,
                 gutterY, colWidth, containerWidth, colCount, phase,
                 listening, data, log, lastCall, updates>>

NextGeom == Next \/ Reflow

SpecGeom == Init /\ [][NextGeom]_vars

\* Pages on which the measurement of some item's height is negative or
\* not a number.
MeasuredHeights == {Num(1), Num(-2), NaN}

InitBad ==
  /\ elHeight \in SeqsOver(MeasuredHeights)
  /\ \E i \in 1..Len(elHeight) : elHeight[i] # Num(1)
  /\ \E w \in ItemWidths : elWidth = [i \in 1..Len(elHeight) |-> Num(w)]
  /\ \E gx \in Gutters, gy \in Gutters : gutter = <<Num(gx), Num(gy)>>
  /\ NoInstance

SpecBad == InitBad /\ [][Next]_vars

\* Pages with no item; any gutters.
InitEmpty ==
  /\ elHeight = <<>>
  /\ elWidth = <<>>
  /\ \E gx \in Gutters, gy \in Gutters : gutter = <<Num(gx), Num(gy)>>
  /\ NoInstance

SpecEmpty == InitEmpty /\ [][Next]_vars

\* Items and gutters with itemWidth + gutterX <= 0.
CfgItemWidths == {0, 1}
CfgGutters == {-1, 0}

InitCfg ==
  /\ PageOf(CfgItemWidths, CfgGutters, ItemHeights)
  /\ elWidth[1].v + gutter[1].v <= 0
  /\ NoInstance

SpecCfg == InitCfg /\ [][Next]_vars

(***************************************************************************)
(* Properties.                                                             *)
(***************************************************************************)

\* The instance after one _pack of all its children from a height array of
\* colCount zeros.
PackedFromZero ==
  Pack([This EXCEPT !.colHeights = Zeros(colCount.v),
                    !.colHeightsNeg = Undefined])

\* The page and options of the specification's end-to-end scenario, and the
\* positions init gives its items for a container 340 wide.
ScenarioPage ==
  [This EXCEPT
     !.elWidth = [i \in 1..5 |-> Num(100)],
     !.elHeight = <<Num(50), Num(80), Num(30), Num(60), Num(40)>>,
     !.gutter = <<Num(20), Num(10)>>,
     !.containerWidth = Undefined,
     !.colCount = Undefined]

ScenarioPositions ==
  LET t == init(ScenarioPage, 340)
  IN  [k \in 1..5 |-> <<t.children[k].x.v, t.children[k].y.v>>]

\* The calls a handler's log shows for one layout pass over n items after
\* position `from`: n pack steps in ascending index, then n placements in
\* ascending index.
IsLayoutPass(l, from, n) ==
  /\ Len(l) = from + 2 * n
  /\ \A k \in 1..n :
       /\ l[from + k].op = "pack"
       /\ l[from + k].i = k - 1
       /\ l[from + n + k] = Call("place", k - 1, -1, <<>>)

\* The column count a measured container width w yields.
WidthYields(w) == GetColumnCount([This EXCEPT !.containerWidth = Num(w)])

LayoutFields == <<containerWidth, colCount, colHeights, colHeightsNeg, children>>

\* C1: after initialization and any sequence of resize notifications (no
\* update() call), every item's (x, y) is what one pack of all items in
\* registration order from all-zero heights gives for the stored column
\* count, whatever widths and counts came before; the specification's
\* end-to-end scenario gives the positions it lists.
C1_LayoutIsPackFromZero ==
  /\ (phase = "Stable" /\ updates = 0) =>
       /\ IsNum(colCount)
       /\ children = PackedFromZero.children
  /\ ScenarioPositions =
       <<(<<0, 0>>), (<<120, 0>>), (<<240, 0>>), (<<240, 40>>), (<<0, 60>>)>>

\* A relayout by a resize that changed the column count, no update() before.
C1_Witness ==
  /\ phase = "Stable"
  /\ updates = 0
  /\ lastCall.op = "resize"
  /\ Len(log) > 1
  /\ Len(children) = 3
  /\ colCount = Num(2)
  /\ \E k \in 1..3 : children[k].x.v > 0 /\ children[k].y.v > 0

\* C2: after a public update() in a Stable state, every item's (x, y) and
\* the column heights are those of one pack from all-zero heights for the
\* current column count.
C2_UpdateRepacksFromZero ==
  (phase = "Stable" /\ lastCall.op = "update" /\ lastCall.dispatched) =>
    /\ children = PackedFromZero.children
    /\ colHeights = PackedFromZero.colHeights

\* C3: a resize notification that measures the stored container width
\* changes no width, count, height or coordinate, and calls nothing but the
\* measurement.
C3_SameWidthIsNoOp ==
  [][(lastCall'.op = "resize" /\ Num(lastCall'.w) = containerWidth) =>
       /\ UNCHANGED LayoutFields
       /\ log' = <<Call("measureContainer", -1, -1, <<>>)>>]_vars

\* A resize that measured the stored width, with items laid out.
C3_Witness ==
  /\ lastCall.op = "resize"
  /\ lastCall.same
  /\ Len(children) >= 2
  /\ colCount.v >= 1
  /\ \E k \in 1..Len(children) : children[k].y.v > 0

\* C4: a resize notification that measures another width with the stored
\* column count stores the width and nothing else: no reset, no pack, no
\* placement, every coordinate and height as before.
C4_SameCountKeepsLayout ==
  [][(/\ lastCall'.op = "resize"
      /\ Num(lastCall'.w) # containerWidth
      /\ WidthYields(lastCall'.w) = colCount) =>
       /\ containerWidth' = Num(lastCall'.w)
       /\ UNCHANGED <<colCount, colHeights, colHeightsNeg, children>>
       /\ log' = <<Call("measureContainer", -1, -1, <<>>)>>]_vars

\* A resize to another width of the same column count, with items laid out.
C4_Witness ==
  /\ lastCall.op = "resize"
  /\ ~lastCall.same
  /\ Len(log) = 1
  /\ Len(children) >= 2
  /\ colCount.v >= 1
  /\ \E k \in 1..Len(children) : children[k].y.v > 0

\* C5: a resize notification that measures a width of another column
\* count first replaces the height array by that many zeros, then packs and
\* places every item in ascending index, the first pack step seeing the
\* zeros; any other resize notification resets nothing.
C5_CountChangeResetsThenPacks ==
  [][lastCall'.op = "resize" =>
       LET n == WidthYields(lastCall'.w)
       IN  IF Num(lastCall'.w) # containerWidth /\ n # colCount
             THEN /\ log'[1].op = "measureContainer"
                  /\ log'[2] = Call("reset", -1, -1, Zeros(n.v))
                  /\ IsLayoutPass(log', 2, Len(children))
                  /\ log'[3].heights = Zeros(n.v)
                  /\ colCount' = n
                  /\ Len(colHeights') = n.v
             ELSE \A k \in 1..Len(log') : log'[k].op # "reset"]_vars

\* A resize that changed the column count of three items to two.
C5_Witness ==
  /\ lastCall.op = "resize"
  /\ Len(log) = 8
  /\ log[2].op = "reset"
  /\ Len(children) = 3
  /\ colCount = Num(2)

\* C6: once destroy() ran (the element's data no longer holds the
\* instance), no step changes the stored width, the column count, the
\* heights or a coordinate, or places an item.
C6_NoLayoutAfterDestroy ==
  [][(phase = "Stable" /\ ~data) =>
       /\ UNCHANGED LayoutFields
       /\ \A k \in 1..Len(log') : log'[k].op # "place"]_vars

\* C7: with itemWidth + gutterX <= 0 the constructor ends without an
\* instance: it returns, and it has stored no column count, built no
\* height array and packed or placed no item.
C7_ConfigurationErrorIsFatal ==
  lastCall.op = "init" =>
    /\ phase # "Hung"
    /\ ~data
    /\ colCount = Undefined
    /\ colHeights = <<>>
    /\ \A k \in 1..Len(log) : log[k].op \notin {"reset", "pack", "place"}

\* C8: for a container width >= 0, an item width > 0 and a gutter >= 0,
\* _getColumnCount is floor((containerWidth + gutterX) / (itemWidth +
\* gutterX)), the largest N >= 0 with N*itemWidth + (N-1)*gutterX <=
\* containerWidth: N at exactly that width, N - 1 one unit below it.
C8_ColumnCountIsLargestFit ==
  phase = "Stable" =>
    LET cw == containerWidth.v
        iw == colWidth.v
        gx == gutterX.v
        fit(N) == N * iw + (N - 1) * gx
        count == GetColumnCount(This)
    IN  /\ IsNum(count)
        /\ count.v >= 0
        /\ count.v = (cw + gx) \div (iw + gx)
        /\ fit(count.v) <= cw
        /\ fit(count.v + 1) > cw
        /\ \A N \in 1..(MaxWidth + 1) :
             /\ cw = fit(N) => count.v = N
             /\ cw = fit(N) - 1 => count.v = N - 1

\* Two columns of width 1 and one gutter of 1 fit a container of exactly 3.
C8_Witness ==
  /\ phase = "Stable"
  /\ colWidth = Num(1)
  /\ gutterX = Num(1)
  /\ containerWidth = Num(3)
  /\ colCount = Num(2)

C10_PackChoosesFirstShortest ==
  \A k \in 1..Len(log) :
    log[k].op = "pack" =>
      LET h == log[k].heights
          c == log[k].col
      IN  /\ c \in 0..(Len(h) - 1)
          /\ \A j \in 0..(Len(h) - 1) :
               /\ Leq(h[c + 1], h[j + 1])
               /\ h[j + 1] = h[c + 1] => c <= j

\* The height array a pack step at position k of the log left behind: the
\* one the next pack step saw, or the stored one after the last step.
HeightsAfter(k) ==
  IF k < Len(log) /\ log[k + 1].op = "pack" THEN log[k + 1].heights
  ELSE colHeights

\* C11: a pack step into column c gives the item the height column c had
\* as its y, grows column c by exactly item.height + gutterY, and leaves
\* every other column and every other item as they were.
C11_PackStepEffect ==
  phase = "Stable" =>
    /\ \A k \in 1..Len(log) :
         (log[k].op = "pack" /\ log[k].col >= 0) =>
           LET h == log[k].heights
               c == log[k].col
               item == children[log[k].i + 1]
               after == HeightsAfter(k)
           IN  /\ item.y = h[c + 1]
               /\ Len(after) = Len(h)
               /\ after[c + 1] = Num(h[c + 1].v + item.height.v + gutterY.v)
               /\ \A j \in 0..(Len(h) - 1) : j # c => after[j + 1] = h[j + 1]
    /\ \A k \in 1..Len(children) :
         LET t == PackChild(This, k)
         IN  /\ Len(t.children) = Len(children)
             /\ t.children[k].index = children[k].index
             /\ t.children[k].height = children[k].height
             /\ \A j \in 1..Len(children) :
                  j # k => t.children[j] = children[j]

\* A pack step onto a column that already held an item, with a gutter.
C11_Witness ==
  /\ phase = "Stable"
  /\ Len(children) = 3
  /\ gutterY = Num(1)
  /\ \E k \in 1..Len(log) :
       /\ log[k].op = "pack"
       /\ log[k].col >= 0
       /\ log[k].heights[log[k].col + 1].v > 0

\* The keys the height array holds: its slots and, if set, the property -1.
HeightKeys ==
  (0..(Len(colHeights) - 1)) \cup
    (IF colHeightsNeg = Undefined THEN {} ELSE {-1})

\* C13: in every state after initialization the height mapping has exactly
\* colCount entries, keyed 0..colCount-1, zero columns included.
C13_HeightsMatchColumnCount ==
  phase = "Stable" =>
    /\ IsNum(colCount)
    /\ Len(colHeights) = colCount.v
    /\ HeightKeys = 0..(colCount.v - 1)

\* C17: after initialization and any resize notifications every item is
\* horizontally inside the container: its column is one of
\* 0..colCount-1, x >= 0 and x + itemWidth <= containerWidth.
C17_ItemsInsideContainer ==
  phase = "Stable" =>
    /\ \A k \in 1..Len(children) :
         /\ IsNum(children[k].x)
         /\ children[k].x.v >= 0
         /\ children[k].x.v + colWidth.v <= containerWidth.v
         /\ \E c \in 0..(colCount.v - 1) :
              children[k].x.v = c * colWidth.v + c * gutterX.v
    /\ \A k \in 1..Len(log) :
         log[k].op = "pack" => log[k].col \in 0..(colCount.v - 1)

\* C18: two distinct items with the same x never overlap: one starts at
\* least gutterY below the bottom of the other.
C18_NoOverlap ==
  phase = "Stable" =>
    \A i, j \in 1..Len(children) :
      (i # j /\ children[i].x = children[j].x) =>
        /\ IsNum(children[i].y)
        /\ IsNum(children[j].y)
        /\ \/ children[i].y.v + children[i].height.v + gutterY.v
                <= children[j].y.v
           \/ children[j].y.v + children[j].height.v + gutterY.v
                <= children[i].y.v

\* The greatest and the least value of a non-empty array of numbers.
MaxOf(h) == CHOOSE m \in {h[i].v : i \in 1..Len(h)} :
              \A i \in 1..Len(h) : h[i].v <= m
MinOf(h) == CHOOSE m \in {h[i].v : i \in 1..Len(h)} :
              \A i \in 1..Len(h) : m <= h[i].v
Spread(h) == MaxOf(h) - MinOf(h)

\* The greatest item.height + gutterY over the registered items.
TallestStep ==
  CHOOSE m \in {children[k].height.v + gutterY.v : k \in 1..Len(children)} :
    \A k \in 1..Len(children) : children[k].height.v + gutterY.v <= m

\* C19: with at least one column, the tallest and the shortest column
\* differ by at most the greatest item.height + gutterY, before every pack
\* step and after every handler, update() calls included.
C19_GreedyBalance ==
  (phase = "Stable" /\ colCount.v >= 1) =>
    /\ Spread(colHeights) <= TallestStep
    /\ \A k \in 1..Len(log) :
         log[k].op = "pack" => Spread(log[k].heights) <= TallestStep

\* Two columns left uneven by an update() pass over three items.
C19_Witness ==
  /\ phase = "Stable"
  /\ lastCall.op = "update"
  /\ lastCall.dispatched
  /\ colCount = Num(2)
  /\ Len(children) = 3
  /\ Spread(colHeights) > 0
  /\ Spread(colHeights) = TallestStep

\* C12: after every layout pass each item packed into column c has
\* x = c*itemWidth + c*gutterX, itemWidth being the stored column width the
\* column count was derived from.
C12_XIsColumnOffset ==
  phase = "Stable" =>
    \A k \in 1..Len(log) :
      log[k].op = "pack" =>
        children[log[k].i + 1].x =
          Num(log[k].col * colWidth.v + log[k].col * gutterX.v)

\* The positions one pack from zeros gives children ch in count columns
\* when every item is as wide as w, the width measured at registration.
RegisteredLayout(ch, count, w) ==
  Pack([This EXCEPT !.elWidth = [i \in 1..Len(ch) |-> w],
                    !.children = ch,
                    !.colHeights = Zeros(count.v),
                    !.colHeightsNeg = Undefined]).children

\* C16: after initialization the stored item width and every stored item
\* height never change, and the (x, y) a later resize pass computes are
\* those the registration-time measurements give, whatever the page
\* reports at the time of the pass.
C16_RegistrationMeasurementsOnly ==
  [][phase = "Stable" =>
       /\ colWidth' = colWidth
       /\ Len(children') = Len(children)
       /\ \A k \in 1..Len(children) :
            children'[k].height = children[k].height
       /\ (lastCall'.op = "resize" /\ Len(log') > 1) =>
            children' = RegisteredLayout(children', colCount', colWidth)]_vars

\* An item whose measured height is a number >= 0.
IsValidItem(child) == IsNum(child.height) /\ child.height.v >= 0

\* The positions of the valid items when only they are packed, from zeros.
LayoutWithoutInvalid ==
  Pack([This EXCEPT !.children = SelectSeq(children, IsValidItem),
                    !.colHeights = Zeros(colCount.v),
                    !.colHeightsNeg = Undefined]).children

\* C14: an item whose measured height is negative or not a number
\* contributes nothing to the column heights (every height is a number
\* >= 0 and no pack step lowers one), and after a layout pass from zeros
\* the other items are where they would be without it.
C14_InvalidHeightIsolated ==
  phase = "Stable" =>
    /\ colHeightsNeg = Undefined
    /\ \A c \in 1..Len(colHeights) :
         IsNum(colHeights[c]) /\ colHeights[c].v >= 0
    /\ \A k \in 1..Len(log) :
         log[k].op = "pack" =>
           \A c \in 1..Len(log[k].heights) :
             /\ IsNum(HeightsAfter(k)[c])
             /\ HeightsAfter(k)[c].v >= log[k].heights[c].v
    /\ (lastCall.op \in {"init", "resize"} /\ Len(log) > 2) =>
         SelectSeq(children, IsValidItem) = LayoutWithoutInvalid

\* C15: with no registered item, initialization and every later resize
\* or update() returns, no pass packs or places anything, and every entry
\* of the height mapping is 0.
C15_EmptyContainerIsNoOp ==
  Len(elHeight) = 0 =>
    /\ phase \in {"Uninitialized", "Stable"}
    /\ children = <<>>
    /\ \A k \in 1..Len(log) : log[k].op \notin {"pack", "place"}
    /\ \A c \in 1..Len(colHeights) : colHeights[c] = Num(0)
    /\ colHeightsNeg = Undefined

\* An update() on an instance with no item, its container of width > 0.
C15_Witness ==
  /\ Len(elHeight) = 0
  /\ phase = "Stable"
  /\ lastCall.op = "update"
  /\ lastCall.dispatched
  /\ containerWidth.v > 0
  /\ log = <<>>

====
